---- MODULE Spec2Model ----
(***************************************************************************)
(* A model of grid2op's PandaPowerBackend                                  *)
(* (src/grid2op/Backend/PandaPowerBackend.py): the tables load_grid        *)
(* builds, the solver-native grid that apply_action mutates, the vectors   *)
(* runpf publishes, reset, and the line (dis)connection helpers.           *)
(*                                                                         *)
(* Arrays are functions over 0..n-1, as in the source.  Electrical         *)
(* quantities are small integers; NaN is one distinguished integer.        *)
(* The power-flow solver (pandapower) is an external engine: it is         *)
(* modelled as one deterministic operator of the solver-native tables.     *)
(***************************************************************************)
EXTENDS Integers, Sequences, FiniteSets, TLC

VARIABLES
  phase,  \* "new" (constructed), "loaded", "rejected" (load_grid raised)
  tabs,   \* the static tables load_grid builds
  grid,   \* self._grid, the solver-native tables
  snap,   \* the grid of __pp_backend_initial_state
  pub,    \* the published vectors, the topology vector, comp_time
  ctl,    \* _nb_bus_before and _pf_init
  last,   \* the last call, its argument and outcome, and the call before it
  first,  \* what the first runpf after load_grid (grid untouched) published
  ncalls  \* the number of calls made since load_grid

vars == <<phase, tabs, grid, snap, pub, ctl, last, first, ncalls>>

----------------------------------------------------------------------------
(* Bounds of the model *)

\* largest number of buses of a grid file drawn by the loading specification
MaxSub == 2

\* largest number of calls made on a loaded backend (operation)
MaxCalls == 3

\* largest number of calls made on a loaded backend (solve cycles)
MaxCycle == 4

\* largest number of calls made on a loaded backend (round trips)
MaxTrip == 2

\* largest number of calls made on a loaded backend (actions and queries)
MaxAct == 2

----------------------------------------------------------------------------
(* Values *)

\* np.NaN, the "unknown" sentinel of the published float vectors
NaN == -999

\* Python's None (for _nb_bus_before, _iref_slack, _id_bus_added)
None == -1

Rng(n) == 0 .. (n - 1)

Size(f) == Cardinality(DOMAIN f)

IsFinite(x) == x # NaN

\* float product, NaN absorbing
Mul(a, b) == IF a = NaN \/ b = NaN THEN NaN ELSE a * b

\* float sum, NaN absorbing
Add(a, b) == IF a = NaN \/ b = NaN THEN NaN ELSE a + b

\* float quotient, NaN absorbing (operands are chosen divisible)
Div(a, b) == IF a = NaN \/ b = NaN THEN NaN ELSE a \div b

\* a table with one more row appended (pp.create_gen)
AddRow(f, row) == [i \in Rng(Size(f) + 1) |-> IF i < Size(f) THEN f[i] ELSE row]

\* np.concatenate of two arrays
Concat(f, g) ==
  [i \in Rng(Size(f) + Size(g)) |-> IF i < Size(f) THEN f[i] ELSE g[i - Size(f)]]

\* np.full(n, v)
Full(n, v) == [i \in Rng(n) |-> v]

RECURSIVE SumTo(_, _)
\* sum of f[0..k-1]
SumTo(f, k) == IF k = 0 THEN 0 ELSE f[k - 1] + SumTo(f, k - 1)

\* np.sum of a boolean table
CountTrue(f) == Cardinality({i \in DOMAIN f : f[i]})

----------------------------------------------------------------------------
(* Grid files: what pp.from_json hands to load_grid *)

\* nominal voltage of bus b in the drawn files
FileVn(b) == 1 + (b % 2)

\* the shape (rows of line, trafo, gen, load, shunt, ext_grid) of the
\* smallest drawn files
SmallShape == [nl |-> 0, nt |-> 1, ng |-> 1, nd |-> 0, ns |-> 1, ne |-> 1]

\* the shapes of the drawn files
Shapes ==
  { [nl |-> 1, nt |-> 0, ng |-> 1, nd |-> 1, ns |-> 1, ne |-> 1],
    [nl |-> 0, nt |-> 1, ng |-> 2, nd |-> 0, ns |-> 0, ne |-> 2],
    [nl |-> 1, nt |-> 1, ng |-> 1, nd |-> 1, ns |-> 0, ne |-> 1],
    SmallShape }

\* a grid file of shape sh on n buses: bus columns bc (one bus per element
\* end, in table order) and the generators' slack flags sl
MkFile(n, sh, b, sl) ==
  LET ol == 0
      ot == 2 * sh.nl
      og == ot + 2 * sh.nt
      od == og + sh.ng
      os == od + sh.nd
      oe == os + sh.ns
  IN  [ nbus  |-> n,
        vn_kv |-> [i \in Rng(n) |-> FileVn(i)],
        line  |-> [i \in Rng(sh.nl) |->
                     [from_bus |-> b[ol + 2 * i], to_bus |-> b[ol + 2 * i + 1],
                      in_service |-> TRUE]],
        trafo |-> [i \in Rng(sh.nt) |->
                     [hv_bus |-> b[ot + 2 * i], lv_bus |-> b[ot + 2 * i + 1],
                      in_service |-> TRUE]],
        gen   |-> [i \in Rng(sh.ng) |->
                     [bus |-> b[og + i], in_service |-> TRUE, slack |-> sl[i],
                      p_mw |-> 1, vm_pu |-> 2]],
        load  |-> [i \in Rng(sh.nd) |->
                     [bus |-> b[od + i], in_service |-> TRUE,
                      p_mw |-> 1, q_mvar |-> 1]],
        shunt |-> [i \in Rng(sh.ns) |->
                     [bus |-> b[os + i], in_service |-> TRUE,
                      p_mw |-> 0, q_mvar |-> 1]],
        ext_grid |-> [i \in Rng(sh.ne) |-> [bus |-> b[oe + i], vm_pu |-> 1]] ]

NCols(sh) == 2 * sh.nl + 2 * sh.nt + sh.ng + sh.nd + sh.ns + sh.ne

\* every file of shape sh on n buses
FilesOf(n, sh) ==
  { MkFile(n, sh, b, sl) : b \in [Rng(NCols(sh)) -> Rng(n)],
                           sl \in [Rng(sh.ng) -> BOOLEAN] }

----------------------------------------------------------------------------
(* load_grid: slack synthesis *)

\* the bus column of the solver-internal generator rows (_ppc['gen'][:, 0]):
\* the external-grid rows, then the generator rows; bus numbering of the
\* internal tables is that of the bus table (all buses in service at load)
PpcGenBus(f) ==
  Concat([i \in DOMAIN f.ext_grid |-> f.ext_grid[i].bus],
         [i \in DOMAIN f.gen |-> f.gen[i].bus])

\* the rows of the internal table that sit on a bus hosting no generator
RefCandidates(f) ==
  { i \in DOMAIN PpcGenBus(f) :
      PpcGenBus(f)[i] \notin { f.gen[g].bus : g \in DOMAIN f.gen } }

\* the loop of load_grid over the internal rows: it stops (break) at the
\* first candidate, so i_ref is the smallest one, None when there is none
IRef(f) ==
  IF RefCandidates(f) = {} THEN None
  ELSE CHOOSE i \in RefCandidates(f) : \A j \in RefCandidates(f) : i <= j

NoSlack(f) == \A g \in DOMAIN f.gen : ~f.gen[g].slack

\* active power of the internal reference row after the solve of load_grid
PpcRefP == 1

\* the generator table after load_grid: one generator is created on the
\* reference bus when no generator of the file is flagged slack
GenAfterSlack(f) ==
  IF NoSlack(f)
  THEN AddRow(f.gen, [bus |-> PpcGenBus(f)[IRef(f)], in_service |-> TRUE,
                      slack |-> TRUE, p_mw |-> PpcRefP,
                      vm_pu |-> f.ext_grid[IRef(f)].vm_pu])
  ELSE f.gen

\* load_grid cannot create the slack generator (no bus to put it on)
LoadFails(f) == NoSlack(f) /\ IRef(f) = None

----------------------------------------------------------------------------
(* load_grid: substation tables *)

\* the element ends in the order load_grid visits them: lines (origin,
\* extremity), transformers (hv, lv), generators, loads
ElemSeq(f, gen) ==
  LET nl == Size(f.line)
      nt == Size(f.trafo)
      ng == Size(gen)
      nd == Size(f.load)
  IN  [k \in 1 .. (2 * nl + 2 * nt + ng + nd) |->
        IF k <= 2 * nl
        THEN LET i == (k - 1) \div 2
             IN  IF (k - 1) % 2 = 0 THEN f.line[i].from_bus ELSE f.line[i].to_bus
        ELSE IF k <= 2 * nl + 2 * nt
        THEN LET i == (k - 1 - 2 * nl) \div 2
             IN  IF (k - 1 - 2 * nl) % 2 = 0 THEN f.trafo[i].hv_bus
                                              ELSE f.trafo[i].lv_bus
        ELSE IF k <= 2 * nl + 2 * nt + ng
        THEN gen[k - 1 - 2 * nl - 2 * nt].bus
        ELSE f.load[k - 1 - 2 * nl - 2 * nt - ng].bus]

\* variant of the loop body that does not advance pos_already_used
SlotStepNoAdvance(acc, s) ==
  [sub_info |-> [acc.sub_info EXCEPT ![s] = @ + 1],
   used     |-> acc.used,
   pos      |-> Append(acc.pos, acc.used[s])]

\* one pass of a loop body of load_grid on an element of substation s:
\* sub_info[s] += 1, position := pos_already_used[s], pos_already_used[s] += 1
SlotStep(acc, s) ==
  [sub_info |-> [acc.sub_info EXCEPT ![s] = @ + 1],
   used     |-> [acc.used EXCEPT ![s] = @ + 1],
   pos      |-> Append(acc.pos, acc.used[s])]

RECURSIVE AssignSlots(_, _, _)
AssignSlots(subs, k, acc) ==
  IF k > Len(subs) THEN acc
  ELSE AssignSlots(subs, k + 1, SlotStep(acc, subs[k]))

\* Backend._compute_pos_big_topo (base class): the slots of a substation
\* are contiguous, substations in order
PosTopoVect(sub_info, subid, sub_pos) ==
  [i \in DOMAIN subid |-> SumTo(sub_info, subid[i]) + sub_pos[i]]

RECURSIVE ApplyWrites(_, _, _)
\* the array arr after the assignments arr[w[k][1]] = w[k][2], k in order
ApplyWrites(arr, w, k) ==
  IF k > Len(w) THEN arr
  ELSE ApplyWrites([arr EXCEPT ![w[k][1]] = w[k][2]], w, k + 1)

\* a sequence of writes <<pos[i], val[i]>> for i = 0..n-1
WriteSeq(pos, val) == [k \in 1 .. Size(pos) |-> <<pos[k - 1], val[k - 1]>>]

\* _big_topo_to_backend: slot -> (id_el_backend, id_topo, type_obj)
BigTopoToBackend(dim, nb_powerline, load_pos, gen_pos, lor_pos, lex_pos) ==
  LET LoadVal == [i \in DOMAIN load_pos |-> <<i, i, 0>>]
      GenVal  == [i \in DOMAIN gen_pos |-> <<i, i, 1>>]
      LorVal  == [i \in DOMAIN lor_pos |->
                    IF i < nb_powerline THEN <<i, i, 2>>
                    ELSE <<i, i - nb_powerline, 3>>]
      LexVal  == [i \in DOMAIN lex_pos |->
                    IF i < nb_powerline THEN <<i, i, 4>>
                    ELSE <<i, i - nb_powerline, 5>>]
  IN  ApplyWrites(Full(dim, <<None, None, None>>),
                  WriteSeq(load_pos, LoadVal) \o WriteSeq(gen_pos, GenVal)
                    \o WriteSeq(lor_pos, LorVal) \o WriteSeq(lex_pos, LexVal),
                  1)

\* the static tables load_grid builds from file f
Tables(f) ==
  LET gen  == GenAfterSlack(f)
      nl   == Size(f.line)
      nt   == Size(f.trafo)
      ng   == Size(gen)
      nd   == Size(f.load)
      ns   == Size(f.shunt)
      n    == f.nbus
      subs == ElemSeq(f, gen)
      acc  == AssignSlots(subs, 1,
                [sub_info |-> Full(n, 0), used |-> Full(n, 0), pos |-> << >>])
      lor_sub == [i \in Rng(nl + nt) |-> subs[2 * i + 1]]
      lex_sub == [i \in Rng(nl + nt) |-> subs[2 * i + 2]]
      gen_sub == [i \in Rng(ng) |-> subs[2 * (nl + nt) + i + 1]]
      load_sub == [i \in Rng(nd) |-> subs[2 * (nl + nt) + ng + i + 1]]
      lor_spos == [i \in Rng(nl + nt) |-> acc.pos[2 * i + 1]]
      lex_spos == [i \in Rng(nl + nt) |-> acc.pos[2 * i + 2]]
      gen_spos == [i \in Rng(ng) |-> acc.pos[2 * (nl + nt) + i + 1]]
      load_spos == [i \in Rng(nd) |-> acc.pos[2 * (nl + nt) + ng + i + 1]]
      dim  == SumTo(acc.sub_info, n)
      lor_pos == PosTopoVect(acc.sub_info, lor_sub, lor_spos)
      lex_pos == PosTopoVect(acc.sub_info, lex_sub, lex_spos)
      gen_pos == PosTopoVect(acc.sub_info, gen_sub, gen_spos)
      load_pos == PosTopoVect(acc.sub_info, load_sub, load_spos)
  IN  [ nb_bus_before |-> n,
        nb_powerline |-> nl,
        number_true_line |-> nl,
        iref_slack |-> IF NoSlack(f) THEN IRef(f) ELSE None,
        id_bus_added |-> IF NoSlack(f) THEN Size(f.gen) ELSE None,
        n_line |-> nl + nt, n_gen |-> ng, n_load |-> nd, n_sub |-> n,
        n_shunt |-> ns,
        sub_info |-> acc.sub_info,
        dim_topo |-> dim,
        init_bus_load |-> [i \in Rng(nd) |-> f.load[i].bus],
        init_bus_gen |-> [i \in Rng(ng) |-> gen[i].bus],
        init_bus_lor |-> Concat([i \in Rng(nl) |-> f.line[i].from_bus],
                                [i \in Rng(nt) |-> f.trafo[i].hv_bus]),
        init_bus_lex |-> Concat([i \in Rng(nl) |-> f.line[i].to_bus],
                                [i \in Rng(nt) |-> f.trafo[i].lv_bus]),
        line_or_to_subid |-> lor_sub, line_ex_to_subid |-> lex_sub,
        gen_to_subid |-> gen_sub, load_to_subid |-> load_sub,
        shunt_to_subid |-> [i \in Rng(ns) |-> f.shunt[i].bus],
        line_or_to_sub_pos |-> lor_spos, line_ex_to_sub_pos |-> lex_spos,
        gen_to_sub_pos |-> gen_spos, load_to_sub_pos |-> load_spos,
        line_or_pos_topo_vect |-> lor_pos, line_ex_pos_topo_vect |-> lex_pos,
        gen_pos_topo_vect |-> gen_pos, load_pos_topo_vect |-> load_pos,
        load_pu_to_kv |-> [i \in Rng(nd) |-> f.vn_kv[load_sub[i]]],
        prod_pu_to_kv |-> [i \in Rng(ng) |-> f.vn_kv[gen_sub[i]]],
        lines_or_pu_to_kv |-> [i \in Rng(nl + nt) |-> f.vn_kv[lor_sub[i]]],
        lines_ex_pu_to_kv |-> [i \in Rng(nl + nt) |-> f.vn_kv[lex_sub[i]]],
        big_topo_to_backend |->
          BigTopoToBackend(dim, nl, load_pos, gen_pos, lor_pos, lex_pos) ]

\* variant of the bus duplication that copies the in-service flags as well
DoubledBusCopied(f) ==
  [i \in Rng(2 * f.nbus) |->
     [in_service |-> TRUE,
      vn_kv |-> IF i < f.nbus THEN f.vn_kv[i] ELSE f.vn_kv[i - f.nbus]]]

\* the bus table after duplication: the split-bus block follows the
\* original buses, same attributes, out of service
DoubledBus(f) ==
  [i \in Rng(2 * f.nbus) |->
     IF i < f.nbus THEN [in_service |-> TRUE, vn_kv |-> f.vn_kv[i]]
     ELSE [in_service |-> FALSE, vn_kv |-> f.vn_kv[i - f.nbus]]]

\* self._grid at the end of load_grid
LoadedGrid(f) ==
  [ bus |-> DoubledBus(f),
    line |-> f.line,
    trafo |-> f.trafo,
    gen |-> GenAfterSlack(f),
    load |-> f.load,
    shunt |-> f.shunt,
    ext_grid |-> f.ext_grid ]

----------------------------------------------------------------------------
(* Topology-vector decoding *)

\* _get_topo_vect: the line status it reads is the cached vector
\* self.line_status (get_line_status), not the in-service column of the grid
GetTopoVect(g, line_status, t) ==
  LET nl == Size(g.line)
      nt == Size(g.trafo)
      nb == t.number_true_line
      Sel(bus, sub) == IF bus = sub THEN 1 ELSE 2
      LineW == [k \in 1 .. (2 * nl) |->
                 LET i == (k - 1) \div 2
                 IN  IF (k - 1) % 2 = 0
                     THEN <<t.line_or_pos_topo_vect[i],
                            IF line_status[i]
                            THEN Sel(g.line[i].from_bus, t.line_or_to_subid[i])
                            ELSE -1>>
                     ELSE <<t.line_ex_pos_topo_vect[i],
                            IF line_status[i]
                            THEN Sel(g.line[i].to_bus, t.line_ex_to_subid[i])
                            ELSE -1>>]
      TrafoW == [k \in 1 .. (2 * nt) |->
                 LET i == (k - 1) \div 2
                     j == i + nb
                 IN  IF (k - 1) % 2 = 0
                     THEN <<t.line_or_pos_topo_vect[j],
                            IF line_status[j]
                            THEN Sel(g.trafo[i].hv_bus, t.line_or_to_subid[j])
                            ELSE -1>>
                     ELSE <<t.line_ex_pos_topo_vect[j],
                            IF line_status[j]
                            THEN Sel(g.trafo[i].lv_bus, t.line_ex_to_subid[j])
                            ELSE -1>>]
      GenW == [k \in 1 .. Size(g.gen) |->
                 <<t.gen_pos_topo_vect[k - 1],
                   Sel(g.gen[k - 1].bus, t.gen_to_subid[k - 1])>>]
      LoadW == [k \in 1 .. Size(g.load) |->
                 <<t.load_pos_topo_vect[k - 1],
                   Sel(g.load[k - 1].bus, t.load_to_subid[k - 1])>>]
  IN  ApplyWrites(Full(t.dim_topo, NaN), LineW \o TrafoW \o GenW \o LoadW, 1)

\* _get_line_status: the in-service columns of lines then transformers
GetLineStatus(g) ==
  Concat([i \in DOMAIN g.line |-> g.line[i].in_service],
         [i \in DOMAIN g.trafo |-> g.trafo[i].in_service])

----------------------------------------------------------------------------
(* Bus resolver and the per-kind bus mutators *)

\* variant of the resolver that coerces an unknown selector to the home bus
PpBusFromGrid2opBusCoerce(grid2op_bus, grid2op_bus_init, t) ==
  IF grid2op_bus = 2
  THEN [raised |-> FALSE, res |-> grid2op_bus_init + t.nb_bus_before]
  ELSE IF grid2op_bus = -1 THEN [raised |-> FALSE, res |-> -1]
  ELSE [raised |-> FALSE, res |-> grid2op_bus_init]

\* _pp_bus_from_grid2op_bus; raised = BackendError
PpBusFromGrid2opBus(grid2op_bus, grid2op_bus_init, t) ==
  IF grid2op_bus = 1 THEN [raised |-> FALSE, res |-> grid2op_bus_init]
  ELSE IF grid2op_bus = 2
  THEN [raised |-> FALSE, res |-> grid2op_bus_init + t.nb_bus_before]
  ELSE IF grid2op_bus = -1 THEN [raised |-> FALSE, res |-> -1]
  ELSE [raised |-> TRUE, res |-> None]

\* variant of _apply_load_bus that puts the load in service without moving it
ApplyLoadBusStay(g, new_bus_backend, id_el_backend) ==
  IF new_bus_backend >= 0
  THEN [g EXCEPT !.load[id_el_backend].in_service = TRUE]
  ELSE [g EXCEPT !.load[id_el_backend].in_service = FALSE,
                 !.load[id_el_backend].bus = -1]

\* _apply_load_bus after the resolver returned new_bus_backend
ApplyLoadBus(g, new_bus_backend, id_el_backend) ==
  IF new_bus_backend >= 0
  THEN [g EXCEPT !.load[id_el_backend].bus = new_bus_backend,
                 !.load[id_el_backend].in_service = TRUE]
  ELSE [g EXCEPT !.load[id_el_backend].in_service = FALSE,
                 !.load[id_el_backend].bus = -1]

\* _apply_gen_bus after the resolver returned new_bus_backend
ApplyGenBus(g, new_bus_backend, id_el_backend, t) ==
  IF new_bus_backend >= 0
  THEN LET g1 == [g EXCEPT !.gen[id_el_backend].bus = new_bus_backend,
                           !.gen[id_el_backend].in_service = TRUE]
       IN  IF id_el_backend = Size(g.gen) - 1 /\ t.iref_slack # None
           THEN [g1 EXCEPT !.ext_grid[0].bus = new_bus_backend]
           ELSE g1
  ELSE [g EXCEPT !.gen[id_el_backend].in_service = FALSE,
                 !.gen[id_el_backend].bus = -1]

ChangeBusPowerlineOr(g, id_powerline_backend, new_bus_backend) ==
  IF new_bus_backend >= 0
  THEN [g EXCEPT !.line[id_powerline_backend].in_service = TRUE,
                 !.line[id_powerline_backend].from_bus = new_bus_backend]
  ELSE [g EXCEPT !.line[id_powerline_backend].in_service = FALSE]

\* variant of change_bus_powerline_ex that leaves the in-service flag alone
\* on a disconnection
ChangeBusPowerlineExKeep(g, id_powerline_backend, new_bus_backend) ==
  IF new_bus_backend >= 0
  THEN [g EXCEPT !.line[id_powerline_backend].in_service = TRUE,
                 !.line[id_powerline_backend].to_bus = new_bus_backend]
  ELSE g

ChangeBusPowerlineEx(g, id_powerline_backend, new_bus_backend) ==
  IF new_bus_backend >= 0
  THEN [g EXCEPT !.line[id_powerline_backend].in_service = TRUE,
                 !.line[id_powerline_backend].to_bus = new_bus_backend]
  ELSE [g EXCEPT !.line[id_powerline_backend].in_service = FALSE]

ChangeBusTrafoHv(g, id_powerline_backend, new_bus_backend) ==
  IF new_bus_backend >= 0
  THEN [g EXCEPT !.trafo[id_powerline_backend].in_service = TRUE,
                 !.trafo[id_powerline_backend].hv_bus = new_bus_backend]
  ELSE [g EXCEPT !.trafo[id_powerline_backend].in_service = FALSE]

\* variant of change_bus_trafo_lv that moves the low-voltage end without
\* putting the transformer back in service
ChangeBusTrafoLvMove(g, id_powerline_backend, new_bus_backend) ==
  IF new_bus_backend >= 0
  THEN [g EXCEPT !.trafo[id_powerline_backend].lv_bus = new_bus_backend]
  ELSE [g EXCEPT !.trafo[id_powerline_backend].in_service = FALSE]

ChangeBusTrafoLv(g, id_powerline_backend, new_bus_backend) ==
  IF new_bus_backend >= 0
  THEN [g EXCEPT !.trafo[id_powerline_backend].in_service = TRUE,
                 !.trafo[id_powerline_backend].lv_bus = new_bus_backend]
  ELSE [g EXCEPT !.trafo[id_powerline_backend].in_service = FALSE]

\* the home bus the mutator of kind type_obj hands to the resolver
InitBusOf(type_obj, id_el_backend, t) ==
  CASE type_obj = 0 -> t.init_bus_load[id_el_backend]
    [] type_obj = 1 -> t.init_bus_gen[id_el_backend]
    [] type_obj \in {2, 3} -> t.init_bus_lor[id_el_backend]
    [] type_obj \in {4, 5} -> t.init_bus_lex[id_el_backend]

\* self._type_to_bus_set[type_obj](new_bus, id_el_backend, id_topo): the
\* resolver runs first; on BackendError the tables are as before this pair
TypeToBusSet(g, t, type_obj, new_bus, id_el_backend, id_topo) ==
  LET r == PpBusFromGrid2opBus(new_bus, InitBusOf(type_obj, id_el_backend, t), t)
  IN  IF r.raised THEN [raised |-> TRUE, grid |-> g]
      ELSE [raised |-> FALSE,
            grid |->
              CASE type_obj = 0 -> ApplyLoadBus(g, r.res, id_el_backend)
                [] type_obj = 1 -> ApplyGenBus(g, r.res, id_el_backend, t)
                [] type_obj = 2 -> ChangeBusPowerlineOr(g, id_el_backend, r.res)
                [] type_obj = 3 -> ChangeBusTrafoHv(g, id_topo, r.res)
                [] type_obj = 4 -> ChangeBusPowerlineEx(g, id_el_backend, r.res)
                [] type_obj = 5 -> ChangeBusTrafoLv(g, id_topo, r.res)]

RECURSIVE ApplyTopo(_, _, _, _)
\* the loop "for id_el, new_bus in topo__" from pair k on: it stops at the
\* first pair whose selector the resolver rejects
ApplyTopo(g, t, topo, k) ==
  IF k > Len(topo) THEN [raised |-> FALSE, grid |-> g]
  ELSE LET b == t.big_topo_to_backend[topo[k][1]]
           r == TypeToBusSet(g, t, b[3], topo[k][2], b[1], b[2])
       IN  IF r.raised THEN r ELSE ApplyTopo(r.grid, t, topo, k + 1)

----------------------------------------------------------------------------
(* apply_action *)

\* variant of the masked write that writes every row, flagged or not
SetChangedAll(tab, x, col) ==
  [i \in DOMAIN tab |-> [tab[i] EXCEPT ![col] = x.values[i]]]

\* tab.iloc[x.changed] = x.values[x.changed] on one column of a table
SetChanged(tab, x, col) ==
  [i \in DOMAIN tab |->
     IF x.changed[i] THEN [tab[i] EXCEPT ![col] = x.values[i]] ELSE tab[i]]

\* (changed & values) for one row: Python's & binds tighter than ==, so the
\* flag (0 or 1) is and-ed bitwise with the integer selector
BitAndFlag(changed, value) == IF changed /\ value % 2 = 1 THEN 1 ELSE 0

\* the shunt block of apply_action
ApplyShunts(g, t, shunt_p, shunt_q, shunt_bus) ==
  LET s1 == SetChanged(g.shunt, shunt_p, "p_mw")
      s2 == SetChanged(s1, shunt_q, "q_mvar")
      s3 == [i \in DOMAIN s2 |->
               IF shunt_bus.changed[i]
               THEN [s2[i] EXCEPT !.in_service = (shunt_bus.values[i] # -1)]
               ELSE s2[i]]
      sh_bus1 == { i \in DOMAIN g.shunt :
                     BitAndFlag(shunt_bus.changed[i], shunt_bus.values[i]) = 1 }
      sh_bus2 == { i \in DOMAIN g.shunt :
                     BitAndFlag(shunt_bus.changed[i], shunt_bus.values[i]) = 2 }
      s4 == [i \in DOMAIN s3 |->
               IF i \in sh_bus1 THEN [s3[i] EXCEPT !.bus = t.shunt_to_subid[i]]
               ELSE s3[i]]
      s5 == [i \in DOMAIN s4 |->
               IF i \in sh_bus2
               THEN [s4[i] EXCEPT !.bus = t.shunt_to_subid[i] + t.nb_bus_before]
               ELSE s4[i]]
  IN  [g EXCEPT !.shunt = s5]

\* the injection block of apply_action
ApplyInjections(g, t, act) ==
  LET gen1 == SetChanged(g.gen, act.prod_p, "p_mw")
      gen2 == [i \in DOMAIN gen1 |->
                 IF act.prod_v.changed[i]
                 THEN [gen1[i] EXCEPT
                         !.vm_pu = Div(act.prod_v.values[i], t.prod_pu_to_kv[i])]
                 ELSE gen1[i]]
      ext  == IF t.id_bus_added # None /\ act.prod_v.changed[t.id_bus_added]
              THEN [i \in DOMAIN g.ext_grid |->
                      [g.ext_grid[i] EXCEPT !.vm_pu = gen2[t.id_bus_added].vm_pu]]
              ELSE g.ext_grid
      load1 == SetChanged(g.load, act.load_p, "p_mw")
      load2 == SetChanged(load1, act.load_q, "q_mvar")
  IN  [g EXCEPT !.gen = gen2, !.ext_grid = ext, !.load = load2]

\* variant of the closing loop that writes the flags of the original buses
\* only
ApplyActiveBusOriginal(g, t, active_bus) ==
  [g EXCEPT !.bus =
     [b \in DOMAIN g.bus |->
        IF b \in DOMAIN active_bus
        THEN [g.bus[b] EXCEPT !.in_service = active_bus[b][1]]
        ELSE g.bus[b]]]

\* the closing loop of apply_action over active_bus
ApplyActiveBus(g, t, active_bus) ==
  [g EXCEPT !.bus =
     [b \in DOMAIN g.bus |->
        IF b \in DOMAIN active_bus
        THEN [g.bus[b] EXCEPT !.in_service = active_bus[b][1]]
        ELSE IF (b - t.nb_bus_before) \in DOMAIN active_bus
        THEN [g.bus[b] EXCEPT !.in_service = active_bus[b - t.nb_bus_before][2]]
        ELSE g.bus[b]]]

\* apply_action(backendAction) for a present action: the tables it leaves
\* and whether BackendError propagated (then the loop over active_bus and
\* the rest of the pairs did not run)
ApplyActionEffect(g, t, act) ==
  LET g1 == ApplyInjections(g, t, act)
      g2 == ApplyShunts(g1, t, act.shunt_p, act.shunt_q, act.shunt_bus)
      r  == ApplyTopo(g2, t, act.topo, 1)
  IN  IF r.raised THEN [raised |-> TRUE, grid |-> r.grid]
      ELSE [raised |-> FALSE, grid |-> ApplyActiveBus(r.grid, t, act.active_bus)]

----------------------------------------------------------------------------
(* The power-flow solver (pp.runpp / pp.rundcpp), an external engine *)

\* voltage magnitude the solver gives a bus with no generator on it
VFlat == 1

\* elapsed solve time reported by one solve (_ppc["et"])
SolveEt == 1

BusOn(g, b) == b \in DOMAIN g.bus /\ g.bus[b].in_service

\* the solver has a reference: a slack generator or an external grid on a
\* bus in service
HasReference(g) ==
  \/ \E i \in DOMAIN g.gen :
       g.gen[i].slack /\ g.gen[i].in_service /\ BusOn(g, g.gen[i].bus)
  \/ \E i \in DOMAIN g.ext_grid : BusOn(g, g.ext_grid[i].bus)

\* res_bus["vm_pu"]: NaN for a bus out of service and for every bus of a
\* direct-current solve
ResBusVm(g, is_dc, b) ==
  IF is_dc \/ ~BusOn(g, b) THEN NaN
  ELSE LET gs == { i \in DOMAIN g.gen : g.gen[i].in_service /\ g.gen[i].bus = b }
           es == { i \in DOMAIN g.ext_grid : g.ext_grid[i].bus = b }
       IN  IF gs # {}
           THEN g.gen[CHOOSE i \in gs : \A j \in gs : i <= j].vm_pu
           ELSE IF es # {}
           THEN g.ext_grid[CHOOSE i \in es : \A j \in es : i <= j].vm_pu
           ELSE VFlat

\* one row of res_line / res_trafo for a branch from bus a to bus b
ResBranch(g, is_dc, a, b, in_service) ==
  LET live == in_service /\ BusOn(g, a) /\ BusOn(g, b)
  IN  [p_from |-> IF live THEN 1 ELSE 0, q_from |-> 0,
       vm_from |-> ResBusVm(g, is_dc, a), i_from |-> IF live THEN 1 ELSE NaN,
       p_to |-> IF live THEN 1 ELSE 0, q_to |-> 0,
       vm_to |-> ResBusVm(g, is_dc, b), i_to |-> IF live THEN 1 ELSE NaN]

\* what one solve leaves in the result tables; raised = LoadflowNotConverged.
\* The outcome is a function of the tables alone (init only seeds the
\* iteration).
Solver(g, is_dc, init) ==
  [ raised |-> ~HasReference(g),
    et |-> SolveEt,
    res_gen |-> [i \in DOMAIN g.gen |->
                   IF BusOn(g, g.gen[i].bus)
                   THEN [p_mw |-> g.gen[i].p_mw, q_mvar |-> 0,
                         vm_pu |-> IF is_dc THEN g.gen[i].vm_pu
                                   ELSE ResBusVm(g, is_dc, g.gen[i].bus)]
                   ELSE [p_mw |-> NaN, q_mvar |-> NaN, vm_pu |-> NaN]],
    res_load |-> [i \in DOMAIN g.load |->
                   [p_mw |-> g.load[i].p_mw, q_mvar |-> g.load[i].q_mvar]],
    res_bus |-> [b \in DOMAIN g.bus |-> ResBusVm(g, is_dc, b)],
    res_line |-> [i \in DOMAIN g.line |->
                   ResBranch(g, is_dc, g.line[i].from_bus, g.line[i].to_bus,
                             g.line[i].in_service)],
    res_trafo |-> [i \in DOMAIN g.trafo |->
                   ResBranch(g, is_dc, g.trafo[i].hv_bus, g.trafo[i].lv_bus,
                             g.trafo[i].in_service)],
    ref_p |-> PpcRefP,
    ref_q |-> 0 ]

----------------------------------------------------------------------------
(* runpf *)

\* variant of _reset_all_nan that resets the branch vectors only
ResetAllNanBranches(p) ==
  [p EXCEPT !.p_or = Full(Size(p.p_or), NaN), !.q_or = Full(Size(p.q_or), NaN),
            !.v_or = Full(Size(p.v_or), NaN), !.a_or = Full(Size(p.a_or), NaN),
            !.p_ex = Full(Size(p.p_ex), NaN), !.q_ex = Full(Size(p.q_ex), NaN),
            !.v_ex = Full(Size(p.v_ex), NaN), !.a_ex = Full(Size(p.a_ex), NaN)]

\* _reset_all_nan on the published vectors (line_status, the topology
\* vector and comp_time are not among the vectors it writes)
ResetAllNan(p) ==
  [p EXCEPT !.p_or = Full(Size(p.p_or), NaN), !.q_or = Full(Size(p.q_or), NaN),
            !.v_or = Full(Size(p.v_or), NaN), !.a_or = Full(Size(p.a_or), NaN),
            !.p_ex = Full(Size(p.p_ex), NaN), !.q_ex = Full(Size(p.q_ex), NaN),
            !.v_ex = Full(Size(p.v_ex), NaN), !.a_ex = Full(Size(p.a_ex), NaN),
            !.prod_p = Full(Size(p.prod_p), NaN),
            !.prod_q = Full(Size(p.prod_q), NaN),
            !.prod_v = Full(Size(p.prod_v), NaN),
            !.load_p = Full(Size(p.load_p), NaN),
            !.load_q = Full(Size(p.load_q), NaN),
            !.load_v = Full(Size(p.load_v), NaN)]

\* the initialisation mode runpf chooses from _nb_bus_before
PfInit(nb_bus, nb_bus_before) ==
  IF nb_bus_before = None THEN "dc"
  ELSE IF nb_bus = nb_bus_before THEN "results"
  ELSE "auto"

\* get_nb_active_bus
GetNbActiveBus(g) == Cardinality({b \in DOMAIN g.bus : g.bus[b].in_service})

\* _gens_info
GensInfo(res, t) ==
  [prod_p |-> [i \in DOMAIN res.res_gen |->
                 IF t.iref_slack # None /\ i = t.id_bus_added
                 THEN Add(res.res_gen[i].p_mw, res.ref_p)
                 ELSE res.res_gen[i].p_mw],
   prod_q |-> [i \in DOMAIN res.res_gen |->
                 IF t.iref_slack # None /\ i = t.id_bus_added
                 THEN Add(res.res_gen[i].q_mvar, res.ref_q)
                 ELSE res.res_gen[i].q_mvar],
   prod_v |-> [i \in DOMAIN res.res_gen |->
                 Mul(res.res_gen[i].vm_pu, t.prod_pu_to_kv[i])]]

\* _loads_info
LoadsInfo(g, res, t) ==
  [load_p |-> [i \in DOMAIN g.load |-> res.res_load[i].p_mw],
   load_q |-> [i \in DOMAIN g.load |-> res.res_load[i].q_mvar],
   load_v |-> [i \in DOMAIN g.load |->
                 Mul(res.res_bus[g.load[i].bus], t.load_pu_to_kv[i])]]

RECURSIVE DcGenScan(_, _, _, _, _, _)
\* the inner loop "for g_id in ind_gens" for load l_id, from generator g_id
\* on: the generator's slot is looked up in load_pos_topo_vect, which has
\* no entry g_id when g_id >= n_load (IndexError)
DcGenScan(load_v, topo_vect, prod_v, t, l_id, g_id) ==
  IF g_id >= t.n_gen THEN [raised |-> FALSE, load_v |-> load_v]
  ELSE IF t.gen_to_subid[g_id] # t.load_to_subid[l_id]
  THEN DcGenScan(load_v, topo_vect, prod_v, t, l_id, g_id + 1)
  ELSE IF g_id \notin DOMAIN t.load_pos_topo_vect
  THEN [raised |-> TRUE, load_v |-> load_v]
  ELSE IF topo_vect[t.load_pos_topo_vect[l_id]]
            = topo_vect[t.load_pos_topo_vect[g_id]]
  THEN [raised |-> FALSE, load_v |-> [load_v EXCEPT ![l_id] = prod_v[g_id]]]
  ELSE DcGenScan(load_v, topo_vect, prod_v, t, l_id, g_id + 1)

RECURSIVE DcLoadV(_, _, _, _, _)
\* the loop "for l_id in range(self.n_load)" of the direct-current branch
DcLoadV(load_v, topo_vect, prod_v, t, l_id) ==
  IF l_id >= t.n_load THEN [raised |-> FALSE, load_v |-> load_v]
  ELSE LET r == DcGenScan(load_v, topo_vect, prod_v, t, l_id, 0)
       IN  IF r.raised THEN r
           ELSE DcLoadV(r.load_v, topo_vect, prod_v, t, l_id + 1)

\* _aux_get_line_info on one column
AuxGetLineInfo(res, col) ==
  Concat([i \in DOMAIN res.res_line |-> res.res_line[i][col]],
         [i \in DOMAIN res.res_trafo |-> res.res_trafo[i][col]])

\* x[~np.isfinite(x)] = 0.
ZeroNonFinite(x) == [i \in DOMAIN x |-> IF IsFinite(x[i]) THEN x[i] ELSE 0]

\* the voltage of one end: non-finite to zero, zero where the branch is
\* out of service, then times the nominal voltage
EndVoltage(vm, line_status, pu_to_kv) ==
  LET v1 == ZeroNonFinite(vm)
      v2 == [i \in DOMAIN v1 |-> IF line_status[i] THEN v1[i] ELSE 0]
  IN  [i \in DOMAIN v2 |-> Mul(v2[i], pu_to_kv[i])]

\* amperes from the solver's kA
KiloAmp == 1000

\* the flows block of runpf (line_status and the eight branch vectors)
PublishFlows(p, g, res, t) ==
  LET ls == GetLineStatus(g)
  IN  [p EXCEPT
         !.line_status = ls,
         !.p_or = AuxGetLineInfo(res, "p_from"),
         !.q_or = AuxGetLineInfo(res, "q_from"),
         !.v_or = EndVoltage(AuxGetLineInfo(res, "vm_from"), ls, t.lines_or_pu_to_kv),
         !.a_or = ZeroNonFinite([i \in Rng(t.n_line) |->
                     Mul(AuxGetLineInfo(res, "i_from")[i], KiloAmp)]),
         !.p_ex = AuxGetLineInfo(res, "p_to"),
         !.q_ex = AuxGetLineInfo(res, "q_to"),
         !.v_ex = EndVoltage(AuxGetLineInfo(res, "vm_to"), ls, t.lines_ex_pu_to_kv),
         !.a_ex = ZeroNonFinite([i \in Rng(t.n_line) |->
                     Mul(AuxGetLineInfo(res, "i_to")[i], KiloAmp)])]

\* variant of the except branch that returns without the reset
RunPfFailureKeep(p, pf_init, solved) ==
  [pub |-> p,
   ctl |-> [nb_bus_before |-> None, pf_init |-> pf_init],
   ret |-> "False", solved |-> solved]

\* the except branch of runpf
RunPfFailure(p, pf_init, solved) ==
  [pub |-> ResetAllNan(p),
   ctl |-> [nb_bus_before |-> None, pf_init |-> pf_init],
   ret |-> "False", solved |-> solved]

\* runpf(is_dc) on grid g with published vectors p and control state c:
\* what it publishes, what it returns ("True", "False", or "raised" when
\* an exception other than LoadflowNotConverged leaves it) and whether
\* the solver ran
RunPfEffect(g, p, c, t, is_dc) ==
  LET pf_init == PfInit(GetNbActiveBus(g), c.nb_bus_before)
      res == Solver(g, is_dc, pf_init)
      p1  == [p EXCEPT !.comp_time = @ + res.et]
      gi  == GensInfo(res, t)
      li  == LoadsInfo(g, res, t)
      p2  == [p1 EXCEPT !.prod_p = gi.prod_p, !.prod_q = gi.prod_q,
                        !.prod_v = gi.prod_v, !.load_p = li.load_p,
                        !.load_q = li.load_q, !.load_v = li.load_v]
      dc  == DcLoadV(t.load_pu_to_kv, p.topo_vect, gi.prod_v, t, 0)
      p3  == IF is_dc THEN [p2 EXCEPT !.load_v = dc.load_v] ELSE p2
      p4  == PublishFlows(p3, g, res, t)
  IN  IF \E i \in DOMAIN g.load : ~g.load[i].in_service
      THEN RunPfFailure(p, pf_init, FALSE)
      ELSE IF \E i \in DOMAIN g.gen : ~g.gen[i].in_service
      THEN RunPfFailure(p, pf_init, FALSE)
      ELSE IF res.raised THEN RunPfFailure(p, pf_init, TRUE)
      ELSE IF \E i \in DOMAIN res.res_gen :
                \/ res.res_gen[i].p_mw = NaN
                \/ res.res_gen[i].q_mvar = NaN
                \/ res.res_gen[i].vm_pu = NaN
      THEN RunPfFailure(p1, pf_init, TRUE)
      ELSE IF ~is_dc /\ \E i \in DOMAIN p2.load_v : ~IsFinite(p2.load_v[i])
      THEN RunPfFailure(p2, pf_init, TRUE)
      ELSE IF is_dc /\ dc.raised
      THEN [pub |-> p3,
            ctl |-> [nb_bus_before |-> None, pf_init |-> pf_init],
            ret |-> "raised", solved |-> TRUE]
      ELSE [pub |-> [p4 EXCEPT !.topo_vect = GetTopoVect(g, p4.line_status, t)],
            ctl |-> [nb_bus_before |-> None, pf_init |-> pf_init],
            ret |-> "True", solved |-> TRUE]

----------------------------------------------------------------------------
(* reset, _disconnect_line, _reconnect_line *)

\* reset(): the grid is replaced by a copy of the snapshot's grid
ResetEffect(p, s, t) ==
  LET p1 == ResetAllNan(p)
  IN  [grid |-> s,
       pub  |-> [p1 EXCEPT !.topo_vect = GetTopoVect(s, p1.line_status, t),
                           !.comp_time = 0]]

\* the in-service flag of branch id_ (a line, or a transformer past the lines)
SetBranchService(g, t, id_, v) ==
  IF id_ < t.number_true_line
  THEN [g EXCEPT !.line[id_].in_service = v]
  ELSE [g EXCEPT !.trafo[id_ - t.number_true_line].in_service = v]

DisconnectLineEffect(g, p, t, id_) ==
  [grid |-> SetBranchService(g, t, id_, FALSE),
   pub  |-> [p EXCEPT !.topo_vect =
                        [@ EXCEPT ![t.line_or_pos_topo_vect[id_]] = -1,
                                  ![t.line_ex_pos_topo_vect[id_]] = -1],
                      !.line_status[id_] = FALSE]]

ReconnectLineEffect(g, p, t, id_) ==
  [grid |-> SetBranchService(g, t, id_, TRUE),
   pub  |-> [p EXCEPT !.line_status[id_] = TRUE]]

----------------------------------------------------------------------------
(* The state machine *)

\* the record of a call, with the call that preceded it
Call(op, arg, ret, solved) ==
  [op |-> op, arg |-> arg, ret |-> ret, solved |-> solved,
   prev |-> [op |-> last.op, arg |-> last.arg, ret |-> last.ret]]

\* the object after __init__
Init ==
  /\ phase = "new"
  /\ tabs = << >>
  /\ grid = << >>
  /\ snap = << >>
  /\ pub = << >>
  /\ ctl = [nb_bus_before |-> None, pf_init |-> "results"]
  /\ last = [op |-> "init", arg |-> << >>, ret |-> "None", solved |-> FALSE,
             prev |-> [op |-> "none", arg |-> << >>, ret |-> "None"]]
  /\ first = [kind |-> "pending"]
  /\ ncalls = 0

\* the published vectors load_grid allocates: NaN everywhere; line_status is
\* np.full(n_line, dtype=bool, fill_value=NaN), which is all True
InitialPub(g, t) ==
  LET ls == Full(t.n_line, TRUE)
  IN  [p_or |-> Full(t.n_line, NaN), q_or |-> Full(t.n_line, NaN),
       v_or |-> Full(t.n_line, NaN), a_or |-> Full(t.n_line, NaN),
       p_ex |-> Full(t.n_line, NaN), q_ex |-> Full(t.n_line, NaN),
       v_ex |-> Full(t.n_line, NaN), a_ex |-> Full(t.n_line, NaN),
       line_status |-> ls,
       load_p |-> Full(t.n_load, NaN), load_q |-> Full(t.n_load, NaN),
       load_v |-> Full(t.n_load, NaN),
       prod_p |-> Full(t.n_gen, NaN), prod_v |-> Full(t.n_gen, NaN),
       prod_q |-> Full(t.n_gen, NaN),
       topo_vect |-> GetTopoVect(g, ls, t),
       comp_time |-> 0]

\* load_grid on file f
LoadGrid(f) ==
  /\ phase = "new"
  /\ IF LoadFails(f)
     THEN /\ phase' = "rejected"
          /\ last' = Call("load_grid", << >>, "raised", FALSE)
          /\ UNCHANGED <<tabs, grid, snap, pub, ctl, first, ncalls>>
     ELSE /\ phase' = "loaded"
          /\ tabs' = Tables(f)
          /\ grid' = LoadedGrid(f)
          /\ snap' = LoadedGrid(f)
          /\ pub' = InitialPub(LoadedGrid(f), Tables(f))
          /\ ctl' = [ctl EXCEPT !.nb_bus_before = None]
          /\ last' = Call("load_grid", << >>, "None", FALSE)
          /\ UNCHANGED <<first, ncalls>>

\* apply_action(None)
ApplyActionNone ==
  /\ phase = "loaded"
  /\ ncalls' = ncalls + 1
  /\ last' = Call("apply_action_none", << >>, "None", FALSE)
  /\ UNCHANGED <<phase, tabs, grid, snap, pub, ctl, first>>

\* apply_action(act) for a present action; the record of the call keeps the
\* list of pairs, the in-service matrix, whether the matrix left the
\* in-service flags of the buses as they were, and whether it left their
\* count as it was
ApplyAction(act) ==
  /\ phase = "loaded"
  /\ ncalls' = ncalls + 1
  /\ LET r == ApplyActionEffect(grid, tabs, act)
     IN  /\ grid' = r.grid
         /\ last' = Call("apply_action",
                         [topo |-> act.topo, active_bus |-> act.active_bus,
                          bus_kept |-> (r.grid.bus = grid.bus),
                          nb_bus_kept |-> (GetNbActiveBus(r.grid)
                                             = GetNbActiveBus(grid))],
                         IF r.raised THEN "raised" ELSE "None", FALSE)
  /\ first' = IF first.kind = "pending" THEN [kind |-> "spoiled"] ELSE first
  /\ UNCHANGED <<phase, tabs, snap, pub, ctl>>

\* runpf(is_dc)
RunPf(is_dc) ==
  /\ phase = "loaded"
  /\ ncalls' = ncalls + 1
  /\ LET r == RunPfEffect(grid, pub, ctl, tabs, is_dc)
     IN  /\ pub' = r.pub
         /\ ctl' = r.ctl
         /\ last' = Call("runpf", is_dc, r.ret, r.solved)
         /\ first' = IF first.kind = "pending"
                     THEN [kind |-> "done", is_dc |-> is_dc, ret |-> r.ret,
                           pub |-> r.pub]
                     ELSE first
  /\ UNCHANGED <<phase, tabs, grid, snap>>

\* reset()
Reset ==
  /\ phase = "loaded"
  /\ ncalls' = ncalls + 1
  /\ LET r == ResetEffect(pub, snap, tabs)
     IN  /\ grid' = r.grid
         /\ pub' = r.pub
  /\ ctl' = [ctl EXCEPT !.nb_bus_before = None]
  /\ last' = Call("reset", << >>, "None", FALSE)
  /\ UNCHANGED <<phase, tabs, snap, first>>

\* _disconnect_line(id_)
DisconnectLine(id_) ==
  /\ phase = "loaded"
  /\ ncalls' = ncalls + 1
  /\ LET r == DisconnectLineEffect(grid, pub, tabs, id_)
     IN  /\ grid' = r.grid
         /\ pub' = r.pub
  /\ last' = Call("disconnect_line", id_, "None", FALSE)
  /\ first' = IF first.kind = "pending" THEN [kind |-> "spoiled"] ELSE first
  /\ UNCHANGED <<phase, tabs, snap, ctl>>

\* _reconnect_line(id_)
ReconnectLine(id_) ==
  /\ phase = "loaded"
  /\ ncalls' = ncalls + 1
  /\ LET r == ReconnectLineEffect(grid, pub, tabs, id_)
     IN  /\ grid' = r.grid
         /\ pub' = r.pub
  /\ last' = Call("reconnect_line", id_, "None", FALSE)
  /\ first' = IF first.kind = "pending" THEN [kind |-> "spoiled"] ELSE first
  /\ UNCHANGED <<phase, tabs, snap, ctl>>

\* a call of the bus resolver on its own
ResolveCall(sel, b) ==
  /\ phase = "loaded"
  /\ last.op # "resolve"
  /\ last' = Call("resolve", <<sel, b>>, PpBusFromGrid2opBus(sel, b, tabs), FALSE)
  /\ UNCHANGED <<phase, tabs, grid, snap, pub, ctl, first, ncalls>>

\* sub_from_bus_id(bus_id)
SubFromBusId(bus_id, t) ==
  IF bus_id >= t.number_true_line THEN bus_id - t.number_true_line ELSE bus_id

\* a call of sub_from_bus_id(bus_id)
SubFromBusIdCall(bus_id) ==
  /\ phase = "loaded"
  /\ last.op # "sub_from_bus_id"
  /\ last' = Call("sub_from_bus_id", bus_id, SubFromBusId(bus_id, tabs), FALSE)
  /\ UNCHANGED <<phase, tabs, grid, snap, pub, ctl, first, ncalls>>

\* shunt_info: the bus selector it returns for every shunt (its first three
\* results read the solver's result tables)
ShuntInfo(g, t) ==
  [shunt_bus |-> [i \in DOMAIN g.shunt |->
                    IF g.shunt[i].bus < t.nb_bus_before THEN 1 ELSE 0]]

\* a call of shunt_info()
ShuntInfoCall ==
  /\ phase = "loaded"
  /\ ncalls' = ncalls + 1
  /\ last' = Call("shunt_info", << >>, ShuntInfo(grid, tabs), FALSE)
  /\ UNCHANGED <<phase, tabs, grid, snap, pub, ctl, first>>

\* a call of _get_topo_vect() on its own: the vector it returns
GetTopoVectCall ==
  /\ phase = "loaded"
  /\ ncalls' = ncalls + 1
  /\ last' = Call("get_topo_vect", << >>,
                  GetTopoVect(grid, pub.line_status, tabs), FALSE)
  /\ UNCHANGED <<phase, tabs, grid, snap, pub, ctl, first>>

----------------------------------------------------------------------------
(* Specification of loading: load_grid on any drawn file *)

LoadAny ==
  \E n \in 1 .. MaxSub : \E sh \in Shapes : \E f \in FilesOf(n, sh) : LoadGrid(f)

NextLoad == LoadAny

SpecLoad == Init /\ [][NextLoad]_vars

----------------------------------------------------------------------------
(* Specification of the resolver: a small file, then calls of the resolver *)

\* the selectors handed to the resolver: the three valid ones and others
Selectors == -3 .. 4

\* the files of one transformer, one generator, one shunt
LoadSmall ==
  \E n \in 1 .. MaxSub : \E f \in FilesOf(n, SmallShape) : LoadGrid(f)

ResolveAny ==
  /\ phase = "loaded"
  /\ \E sel \in Selectors : \E b \in Rng(tabs.nb_bus_before) : ResolveCall(sel, b)

NextResolve == LoadSmall \/ ResolveAny

SpecResolve == Init /\ [][NextResolve]_vars

----------------------------------------------------------------------------
(* Specification of operation: a toy grid, then any calls *)

FromSeq(q) == [i \in Rng(Len(q)) |-> q[i + 1]]

\* one line 0-1, a slack generator on bus 0, a load on bus 1
FileLine ==
  MkFile(2, [nl |-> 1, nt |-> 0, ng |-> 1, nd |-> 1, ns |-> 0, ne |-> 1],
         FromSeq(<<0, 1, 0, 1, 0>>), FromSeq(<<TRUE>>))

\* one transformer 0-1, a generator on bus 1 that is not slack, a load on
\* bus 0, a shunt on bus 1, the external grid on bus 0: load_grid creates
\* the slack generator (generator 1) on bus 0
FileTrafo ==
  MkFile(2, [nl |-> 0, nt |-> 1, ng |-> 1, nd |-> 1, ns |-> 1, ne |-> 1],
         FromSeq(<<0, 1, 1, 0, 1, 0>>), FromSeq(<<FALSE>>))

\* one line 0-1, a slack generator and two loads on bus 0
FileTwoLoads ==
  MkFile(2, [nl |-> 1, nt |-> 0, ng |-> 1, nd |-> 2, ns |-> 0, ne |-> 1],
         FromSeq(<<0, 1, 0, 0, 0, 0>>), FromSeq(<<TRUE>>))

ToyFiles == {FileLine, FileTrafo, FileTwoLoads}

\* a vector of the action with no row flagged changed
Unchanged(n) == [changed |-> Full(n, FALSE), values |-> Full(n, 0)]

\* an action that changes no injection and no shunt
TopoAction(active_bus, topo) ==
  [active_bus |-> active_bus,
   prod_p |-> Unchanged(tabs.n_gen), prod_v |-> Unchanged(tabs.n_gen),
   load_p |-> Unchanged(tabs.n_load), load_q |-> Unchanged(tabs.n_load),
   topo |-> topo,
   shunt_p |-> Unchanged(tabs.n_shunt), shunt_q |-> Unchanged(tabs.n_shunt),
   shunt_bus |-> Unchanged(tabs.n_shunt)]

\* the in-service matrix with the row <<a, b>> for every substation
BusMatrix(a, b) == Full(tabs.n_sub, <<a, b>>)

\* a selector the resolver rejects
BadSelector == 3

\* the actions drawn: one pair (a disconnection or a move to the split
\* bus) with every bus in service; a valid pair followed by a rejected
\* one; and the empty list with both, one or no bus of each substation in
\* service
ToyActions ==
  { TopoAction(BusMatrix(TRUE, TRUE), <<x>>) : x \in Rng(tabs.dim_topo) \X {-1, 2} }
    \cup { TopoAction(BusMatrix(TRUE, TRUE), <<<<0, 2>>, <<1, BadSelector>>>>) }
    \cup { TopoAction(BusMatrix(TRUE, TRUE), << >>),
           TopoAction(BusMatrix(TRUE, FALSE), << >>),
           TopoAction(BusMatrix(FALSE, FALSE), << >>) }

ApplyAny ==
  /\ phase = "loaded"
  /\ \E act \in ToyActions : ApplyAction(act)

LoadToy == \E f \in ToyFiles : LoadGrid(f)

RunPfAny == \E is_dc \in BOOLEAN : RunPf(is_dc)

DisconnectAny ==
  /\ phase = "loaded"
  /\ \E id_ \in Rng(tabs.n_line) : DisconnectLine(id_)

ReconnectAny ==
  /\ phase = "loaded"
  /\ \E id_ \in Rng(tabs.n_line) : ReconnectLine(id_)

Next ==
  \/ LoadToy
  \/ ncalls < MaxCalls /\ ApplyActionNone
  \/ ncalls < MaxCalls /\ ApplyAny
  \/ ncalls < MaxCalls /\ RunPfAny
  \/ ncalls < MaxCalls /\ Reset
  \/ ncalls < MaxCalls /\ DisconnectAny
  \/ ncalls < MaxCalls /\ ReconnectAny

Spec == Init /\ [][Next]_vars

----------------------------------------------------------------------------
(* Specification of solve cycles: fewer actions, longer runs *)

CycleFiles == {FileTrafo, FileTwoLoads}

LoadCycle == \E f \in CycleFiles : LoadGrid(f)

\* the empty list with every bus, or only the original buses, in service,
\* and the move of the element of slot 2 to its split bus
CycleActions ==
  { TopoAction(BusMatrix(TRUE, TRUE), << >>),
    TopoAction(BusMatrix(TRUE, FALSE), << >>),
    TopoAction(BusMatrix(TRUE, TRUE), <<<<2, 2>>>>) }

ApplyCycle ==
  /\ phase = "loaded"
  /\ \E act \in CycleActions : ApplyAction(act)

NextCycle ==
  \/ LoadCycle
  \/ ncalls < MaxCycle /\ ApplyCycle
  \/ ncalls < MaxCycle /\ RunPfAny
  \/ ncalls < MaxCycle /\ Reset
  \/ ncalls < MaxCycle /\ DisconnectAny

SpecCycle == Init /\ [][NextCycle]_vars

----------------------------------------------------------------------------
(* Specification of round trips: a whole target vector per action *)

\* one transformer 0-1, a slack generator on bus 0, a load on bus 1
FileTrafoSlack ==
  MkFile(2, [nl |-> 0, nt |-> 1, ng |-> 1, nd |-> 1, ns |-> 0, ne |-> 1],
         FromSeq(<<0, 1, 0, 1, 0>>), FromSeq(<<TRUE>>))

TripFiles == {FileLine, FileTrafoSlack}

LoadTrip == \E f \in TripFiles : LoadGrid(f)

\* the slots of loads and generators
InjectionSlots ==
  { tabs.load_pos_topo_vect[i] : i \in Rng(tabs.n_load) }
    \cup { tabs.gen_pos_topo_vect[i] : i \in Rng(tabs.n_gen) }

\* the target vectors drawn: every branch end in {1, 2, -1}, every load and
\* generator in {1, 2} (with a load or a generator at -1 no solve succeeds)
TargetVectors ==
  { v \in [Rng(tabs.dim_topo) -> {1, 2, -1}] :
      \A k \in InjectionSlots : v[k] # -1 }

\* the action that carries target vector v: one pair per slot, in slot
\* order, every bus in service
VectorAction(v) ==
  TopoAction(BusMatrix(TRUE, TRUE), [k \in 1 .. tabs.dim_topo |-> <<k - 1, v[k - 1]>>])

ApplyVector ==
  /\ phase = "loaded"
  /\ \E v \in TargetVectors : ApplyAction(VectorAction(v))

NextTrip ==
  \/ LoadTrip
  \/ ncalls < MaxTrip /\ ApplyVector
  \/ ncalls < MaxTrip /\ RunPfAny

SpecTrip == Init /\ [][NextTrip]_vars

----------------------------------------------------------------------------
(* Specification of the bus-to-substation lookup: any drawn file, then
   sub_from_bus_id on any bus of the doubled bus table *)

SubFromBusIdAny ==
  /\ phase = "loaded"
  /\ \E bus_id \in DOMAIN grid.bus : SubFromBusIdCall(bus_id)

NextSub == LoadAny \/ SubFromBusIdAny

SpecSub == Init /\ [][NextSub]_vars

----------------------------------------------------------------------------
(* Specification of actions: injections, shunts, pairs and matrices *)

\* one line 0-1, a slack generator on bus 0, a load on bus 1, a shunt on
\* each bus
FileShunt ==
  MkFile(2, [nl |-> 1, nt |-> 0, ng |-> 1, nd |-> 1, ns |-> 2, ne |-> 1],
         FromSeq(<<0, 1, 0, 1, 0, 1, 0>>), FromSeq(<<TRUE>>))

ActFiles == {FileTrafo, FileShunt}

LoadAct == \E f \in ActFiles : LoadGrid(f)

\* a vector of the action carrying value v in every row, the rows of the
\* set rows flagged changed
Flagged(n, rows, v) ==
  [changed |-> [i \in Rng(n) |-> i \in rows], values |-> Full(n, v)]

\* the in-service matrix with <<TRUE, FALSE>> for substation 0 and
\* <<FALSE, TRUE>> for the others
MixedMatrix == [s \in Rng(tabs.n_sub) |-> IF s = 0 THEN <<TRUE, FALSE>> ELSE <<FALSE, TRUE>>]

\* the actions drawn: the empty action; one kind of change at a time (an
\* injection, a shunt value, a shunt bus selector, a pair, a matrix); and
\* two actions that change everything at once
ActActions ==
  LET base == TopoAction(BusMatrix(TRUE, TRUE), << >>)
      ng   == tabs.n_gen
      nd   == tabs.n_load
      ns   == tabs.n_shunt
      all  == [TopoAction(MixedMatrix, <<<<0, 2>>, <<tabs.dim_topo - 1, 2>>>>) EXCEPT
                 !.prod_p = Flagged(ng, {0}, 3),
                 !.prod_v = Flagged(ng, {ng - 1}, 4),
                 !.load_p = Flagged(nd, {0}, 5),
                 !.load_q = Flagged(nd, {0}, 6),
                 !.shunt_p = Flagged(ns, {0}, 7),
                 !.shunt_q = Flagged(ns, {0}, 8)]
  IN  { base,
        [base EXCEPT !.prod_p = Flagged(ng, {0}, 3)],
        [base EXCEPT !.prod_v = Flagged(ng, {ng - 1}, 4)],
        [base EXCEPT !.load_p = Flagged(nd, {0}, 5),
                     !.load_q = Flagged(nd, {0}, 6)],
        [base EXCEPT !.shunt_p = Flagged(ns, {0}, 7),
                     !.shunt_q = Flagged(ns, {0}, 8)],
        TopoAction(BusMatrix(TRUE, TRUE), <<<<0, 2>>>>),
        TopoAction(BusMatrix(TRUE, TRUE), <<<<tabs.dim_topo - 1, -1>>>>),
        TopoAction(MixedMatrix, << >>) }
      \cup { [base EXCEPT !.shunt_bus = Flagged(ns, {0}, sel)] : sel \in {-1, 1, 2} }
      \cup { [all EXCEPT !.shunt_bus = Flagged(ns, {0}, sel)] : sel \in {-1, 2} }

ApplyAct ==
  /\ phase = "loaded"
  /\ \E act \in ActActions : ApplyAction(act)

NextAct ==
  \/ LoadAct
  \/ ncalls < MaxAct /\ ApplyActionNone
  \/ ncalls < MaxAct /\ ApplyAct
  \/ ncalls < MaxAct /\ ShuntInfoCall
  \/ ncalls < MaxAct /\ GetTopoVectCall

SpecAct == Init /\ [][NextAct]_vars

----------------------------------------------------------------------------
(* Properties of the bus resolver (SpecResolve) *)

\* C1: a call of the bus resolver on a valid home bus b returns b for
\* selector 1, b plus the number of buses recorded at load time for selector
\* 2 and -1 for selector -1; for any other selector it raises and returns
\* no bus
C1_Resolver ==
  last.op = "resolve" =>
    LET sel == last.arg[1]
        b   == last.arg[2]
        r   == last.ret
    IN  /\ b \in Rng(tabs.nb_bus_before)
        /\ sel = 1 => (~r.raised /\ r.res = b)
        /\ sel = 2 => (~r.raised /\ r.res = b + tabs.nb_bus_before)
        /\ sel = -1 => (~r.raised /\ r.res = -1)
        /\ sel \notin {1, 2, -1} => (r.raised /\ r.res = None)

\* a resolver call with selector 2 on a home bus other than bus 0
C1_Witness ==
  /\ last.op = "resolve"
  /\ last.arg[1] = 2
  /\ last.arg[2] > 0
  /\ last.ret.res = last.arg[2] + tabs.nb_bus_before

----------------------------------------------------------------------------
(* Properties of load_grid (SpecLoad) *)

\* C9 (as stated): after load_grid the slot count of every substation is the
\* number of loads, generators (synthesized slack included), branch origins,
\* branch extremities and shunts whose home substation it is
C9_ShuntsCounted ==
  phase = "loaded" =>
    \A s \in Rng(tabs.n_sub) :
      tabs.sub_info[s] =
          Cardinality({i \in DOMAIN grid.load : grid.load[i].bus = s})
        + Cardinality({i \in DOMAIN grid.gen : grid.gen[i].bus = s})
        + Cardinality({i \in DOMAIN grid.line : grid.line[i].from_bus = s})
        + Cardinality({i \in DOMAIN grid.trafo : grid.trafo[i].hv_bus = s})
        + Cardinality({i \in DOMAIN grid.line : grid.line[i].to_bus = s})
        + Cardinality({i \in DOMAIN grid.trafo : grid.trafo[i].lv_bus = s})
        + Cardinality({i \in DOMAIN grid.shunt : grid.shunt[i].bus = s})

\* C9 (amended): after load_grid the slot count of every substation is the
\* number of loads, generators (synthesized slack included), branch origins
\* and branch extremities whose home substation it is, shunts not counted;
\* each of these elements has one position, smaller than the slot count of
\* its substation and shared with no other element of that substation; the
\* slot counts sum to dim_topo
C9_SlotsWithoutShunts ==
  phase = "loaded" =>
    LET nl == Size(grid.line)
        Slots ==
          { <<"load", i, tabs.load_to_subid[i], tabs.load_to_sub_pos[i]>> :
              i \in DOMAIN grid.load }
          \cup { <<"gen", i, tabs.gen_to_subid[i], tabs.gen_to_sub_pos[i]>> :
                   i \in DOMAIN grid.gen }
          \cup { <<"or", i, tabs.line_or_to_subid[i], tabs.line_or_to_sub_pos[i]>> :
                   i \in Rng(tabs.n_line) }
          \cup { <<"ex", i, tabs.line_ex_to_subid[i], tabs.line_ex_to_sub_pos[i]>> :
                   i \in Rng(tabs.n_line) }
    IN  /\ \A s \in Rng(tabs.n_sub) :
             tabs.sub_info[s] =
                 Cardinality({i \in DOMAIN grid.load : grid.load[i].bus = s})
               + Cardinality({i \in DOMAIN grid.gen : grid.gen[i].bus = s})
               + Cardinality({i \in DOMAIN grid.line : grid.line[i].from_bus = s})
               + Cardinality({i \in DOMAIN grid.trafo : grid.trafo[i].hv_bus = s})
               + Cardinality({i \in DOMAIN grid.line : grid.line[i].to_bus = s})
               + Cardinality({i \in DOMAIN grid.trafo : grid.trafo[i].lv_bus = s})
        /\ \A i \in DOMAIN grid.load : tabs.load_to_subid[i] = grid.load[i].bus
        /\ \A i \in DOMAIN grid.gen : tabs.gen_to_subid[i] = grid.gen[i].bus
        /\ \A i \in DOMAIN grid.line :
             /\ tabs.line_or_to_subid[i] = grid.line[i].from_bus
             /\ tabs.line_ex_to_subid[i] = grid.line[i].to_bus
        /\ \A i \in DOMAIN grid.trafo :
             /\ tabs.line_or_to_subid[nl + i] = grid.trafo[i].hv_bus
             /\ tabs.line_ex_to_subid[nl + i] = grid.trafo[i].lv_bus
        /\ tabs.n_line = nl + Size(grid.trafo)
        /\ \A e \in Slots : e[4] >= 0 /\ e[4] < tabs.sub_info[e[3]]
        /\ \A e1 \in Slots : \A e2 \in Slots :
             (e1[3] = e2[3] /\ e1[4] = e2[4]) => e1 = e2
        /\ SumTo(tabs.sub_info, tabs.n_sub) = tabs.dim_topo

\* a loaded grid with a shunt, a synthesized slack generator and a
\* substation of three slots or more
C9_Witness ==
  /\ phase = "loaded"
  /\ Size(grid.shunt) > 0
  /\ tabs.iref_slack # None
  /\ Size(grid.gen) = tabs.id_bus_added + 1
  /\ \E s \in Rng(tabs.n_sub) : tabs.sub_info[s] >= 3

----------------------------------------------------------------------------
(* Properties of operation (Spec) *)

\* the fourteen electrical result vectors hold NaN in every entry
OutputsUnknown(p) ==
  \A v \in {p.p_or, p.q_or, p.v_or, p.a_or, p.p_ex, p.q_ex, p.v_ex, p.a_ex,
            p.prod_p, p.prod_q, p.prod_v, p.load_p, p.load_q, p.load_v} :
    \A i \in DOMAIN v : v[i] = NaN

\* the step is a call of runpf
RunPfStep == last'.op = "runpf" /\ ncalls' = ncalls + 1

\* runpf(is_dc) on grid g meets one of the convergence failures: an
\* isolated load or generator, a solver that does not converge, a missing
\* generator result, a non-finite load voltage of an alternating-current
\* solve
ConvergenceFailure(g, t, is_dc) ==
  LET res == Solver(g, is_dc, "dc")
  IN  \/ \E i \in DOMAIN g.load : ~g.load[i].in_service
      \/ \E i \in DOMAIN g.gen : ~g.gen[i].in_service
      \/ res.raised
      \/ \E i \in DOMAIN res.res_gen : res.res_gen[i].p_mw = NaN
      \/ ~is_dc /\ \E i \in DOMAIN g.load : res.res_bus[g.load[i].bus] = NaN

\* C2 (as stated): when runpf has returned False, every published quantity
\* holds the unknown sentinel, the electrical vectors and the topology
\* vector alike
C2_AllPublishedUnknown ==
  (last.op = "runpf" /\ last.ret = "False") =>
    /\ OutputsUnknown(pub)
    /\ \A i \in DOMAIN pub.topo_vect : pub.topo_vect[i] = NaN

\* C2 (amended): a call of runpf that meets a convergence failure returns
\* False without raising; whenever runpf returns False the fourteen
\* electrical vectors hold NaN in every entry, while the topology vector and
\* the line-status vector are the ones published before the call
C2_FailureResetsElectrical ==
  [][ RunPfStep =>
        /\ ConvergenceFailure(grid, tabs, last'.arg) => last'.ret = "False"
        /\ last'.ret = "False" =>
             /\ OutputsUnknown(pub')
             /\ pub'.topo_vect = pub.topo_vect
             /\ pub'.line_status = pub.line_status ]_vars

\* runpf has returned False after the solver ran; the electrical vectors
\* are reset, the solve time is counted, and the topology vector it leaves
\* is not the decoding of the grid
C2_Witness ==
  /\ last.op = "runpf"
  /\ last.ret = "False"
  /\ last.solved
  /\ pub.comp_time > 0
  /\ OutputsUnknown(pub)
  /\ pub.topo_vect # GetTopoVect(grid, GetLineStatus(grid), tabs)

\* C3: a call of runpf for an alternating-current solve on a grid with a
\* load row or a generator row out of service returns False, leaves NaN in
\* every entry of the electrical vectors and does not invoke the solver
\* (the solve-time counter is as before)
C3_IsolatedElement ==
  [][ ( /\ RunPfStep
        /\ last'.arg = FALSE
        /\ \/ \E i \in DOMAIN grid.load : ~grid.load[i].in_service
           \/ \E i \in DOMAIN grid.gen : ~grid.gen[i].in_service ) =>
        /\ last'.ret = "False"
        /\ ~last'.solved
        /\ pub'.comp_time = pub.comp_time
        /\ OutputsUnknown(pub') ]_vars

\* an alternating-current runpf has returned False without solving, on a
\* grid with a load out of service, after an earlier solve
C3_Witness ==
  /\ last.op = "runpf"
  /\ last.arg = FALSE
  /\ last.ret = "False"
  /\ ~last.solved
  /\ \E i \in DOMAIN grid.load : ~grid.load[i].in_service
  /\ pub.comp_time > 0
  /\ OutputsUnknown(pub)

\* C4: a call of reset() leaves the grid equal to the snapshot taken at the
\* end of load_grid, the snapshot unchanged, NaN in every entry of the
\* electrical vectors, the topology vector equal to the decoding of the
\* restored grid, and the solve-time counter at zero
C4_ResetRestores ==
  [][ (last'.op = "reset" /\ ncalls' = ncalls + 1) =>
        /\ grid' = snap
        /\ snap' = snap
        /\ OutputsUnknown(pub')
        /\ pub'.topo_vect = GetTopoVect(grid', GetLineStatus(grid'), tabs)
        /\ pub'.comp_time = 0 ]_vars

\* the branch whose origin or extremity sits at slot
BranchAt(t, slot) ==
  { j \in Rng(t.n_line) :
      t.line_or_pos_topo_vect[j] = slot \/ t.line_ex_pos_topo_vect[j] = slot }

\* the in-service flag of branch j (a line, or a transformer past the lines)
BranchInService(g, t, j) ==
  IF j < t.nb_powerline THEN g.line[j].in_service
  ELSE g.trafo[j - t.nb_powerline].in_service

Assignments(g) ==
  [ line  |-> [i \in DOMAIN g.line |->
                 <<g.line[i].from_bus, g.line[i].to_bus, g.line[i].in_service>>],
    trafo |-> [i \in DOMAIN g.trafo |->
                 <<g.trafo[i].hv_bus, g.trafo[i].lv_bus, g.trafo[i].in_service>>],
    gen   |-> [i \in DOMAIN g.gen |-> <<g.gen[i].bus, g.gen[i].in_service>>],
    load  |-> [i \in DOMAIN g.load |-> <<g.load[i].bus, g.load[i].in_service>>] ]

\* C10: a call of apply_action whose list holds a selector outside
\* {-1, 1, 2} raises and leaves the bus assignments and in-service flags of
\* the element tables as they were before the call
C10_NoPartialMutation ==
  [][ ( /\ last'.op = "apply_action"
        /\ ncalls' = ncalls + 1
        /\ \E k \in DOMAIN last'.arg.topo :
             last'.arg.topo[k][2] \notin {-1, 1, 2} ) =>
        /\ last'.ret = "raised"
        /\ Assignments(grid') = Assignments(grid) ]_vars

----------------------------------------------------------------------------
(* Properties of solve cycles (SpecCycle) *)

\* the published outputs: the electrical vectors, the topology vector and
\* the line-status vector (everything but the solve-time counter)
Outputs(p) == [p EXCEPT !.comp_time = 0]

\* C5: a runpf called right after reset() returns what the first runpf
\* after load_grid returned (same kind of solve) and publishes the same
\* electrical vectors, topology vector and line-status vector
C5_ResetReproducesFirst ==
  ( /\ last.op = "runpf"
    /\ last.prev.op = "reset"
    /\ first.kind = "done"
    /\ first.is_dc = last.arg ) =>
    /\ last.ret = first.ret
    /\ Outputs(pub) = Outputs(first.pub)

\* C8: when a runpf has returned True, an apply_action follows with an
\* empty list of pairs, no changed injection or shunt and an in-service
\* matrix that leaves the bus flags as they are, and the same kind of runpf
\* is called again, it returns True and the topology vector and the
\* electrical vectors are those of before the action
C8_EmptyActionIdempotent ==
  [][ ( /\ RunPfStep
        /\ last.op = "apply_action"
        /\ last.arg.topo = << >>
        /\ last.arg.bus_kept
        /\ last.prev.op = "runpf"
        /\ last.prev.ret = "True"
        /\ last.prev.arg = last'.arg ) =>
        /\ last'.ret = "True"
        /\ Outputs(pub') = Outputs(pub) ]_vars

----------------------------------------------------------------------------
(* Properties of round trips (SpecTrip) *)

\* the call recorded in c applied one pair to every slot, in slot order
WholeVector(c) ==
  /\ c.op = "apply_action"
  /\ c.ret = "None"
  /\ Len(c.arg.topo) = tabs.dim_topo
  /\ \A k \in 1 .. tabs.dim_topo : c.arg.topo[k][1] = k - 1

\* the slot belongs to a load, a generator, or a branch in service
SlotInService(g, t, slot) ==
  \A j \in BranchAt(t, slot) : BranchInService(g, t, j)

\* C7 (as stated): after a target vector has been applied pair by pair and
\* the next call, a runpf, has returned True, the published selector equals
\* the applied one at every slot whose branch is in service
C7_RoundTripEverySlot ==
  (last.op = "runpf" /\ last.ret = "True" /\ WholeVector(last.prev)) =>
    \A k \in 1 .. tabs.dim_topo :
      SlotInService(grid, tabs, k - 1) =>
        pub.topo_vect[k - 1] = last.prev.arg.topo[k][2]

\* C7 (amended): after a target vector has been applied pair by pair and
\* the next call, a runpf, has returned True, the published selector equals
\* the applied one at every slot where the applied selector is 1 or 2 and
\* whose branch is in service; both slots of a branch out of service are -1
C7_RoundTripConnected ==
  (last.op = "runpf" /\ last.ret = "True" /\ WholeVector(last.prev)) =>
    \A k \in 1 .. tabs.dim_topo :
      IF SlotInService(grid, tabs, k - 1)
      THEN last.prev.arg.topo[k][2] \in {1, 2} =>
             pub.topo_vect[k - 1] = last.prev.arg.topo[k][2]
      ELSE pub.topo_vect[k - 1] = -1

\* a round trip has moved the load and one branch end to the split bus and
\* reads both back as 2
C7_Witness ==
  /\ last.op = "runpf"
  /\ last.ret = "True"
  /\ WholeVector(last.prev)
  /\ \E i \in Rng(tabs.n_load) :
       /\ last.prev.arg.topo[tabs.load_pos_topo_vect[i] + 1][2] = 2
       /\ pub.topo_vect[tabs.load_pos_topo_vect[i]] = 2
  /\ \E j \in Rng(tabs.n_line) :
       /\ last.prev.arg.topo[tabs.line_ex_pos_topo_vect[j] + 1][2] = 2
       /\ pub.topo_vect[tabs.line_ex_pos_topo_vect[j]] = 2
       /\ pub.topo_vect[tabs.line_or_pos_topo_vect[j]] = 1

----------------------------------------------------------------------------
(* Properties of apply_action (SpecAct) *)

\* the bus column of the element that owns a slot (a one-element set)
SlotBus(g, t, slot) ==
  { g.load[i].bus : i \in { i \in Rng(t.n_load) : t.load_pos_topo_vect[i] = slot } }
    \cup { g.gen[i].bus : i \in { i \in Rng(t.n_gen) : t.gen_pos_topo_vect[i] = slot } }
    \cup { IF j < t.nb_powerline THEN g.line[j].from_bus
           ELSE g.trafo[j - t.nb_powerline].hv_bus :
             j \in { j \in Rng(t.n_line) : t.line_or_pos_topo_vect[j] = slot } }
    \cup { IF j < t.nb_powerline THEN g.line[j].to_bus
           ELSE g.trafo[j - t.nb_powerline].lv_bus :
             j \in { j \in Rng(t.n_line) : t.line_ex_pos_topo_vect[j] = slot } }

\* the in-service flag of the element that owns a slot (a one-element set)
SlotService(g, t, slot) ==
  { g.load[i].in_service : i \in { i \in Rng(t.n_load) : t.load_pos_topo_vect[i] = slot } }
    \cup { g.gen[i].in_service : i \in { i \in Rng(t.n_gen) : t.gen_pos_topo_vect[i] = slot } }
    \cup { BranchInService(g, t, j) : j \in BranchAt(t, slot) }

\* the slots named by the pairs of a list
Listed(topo) == { topo[k][1] : k \in DOMAIN topo }

\* the two slots of the branch that owns a slot (empty for a load or a
\* generator)
BranchSlots(t, slot) ==
  UNION { {t.line_or_pos_topo_vect[j], t.line_ex_pos_topo_vect[j]} : j \in BranchAt(t, slot) }

\* what apply_action(act) must have kept between the tables g and h
KeptBy(g, h, t, act) ==
  /\ \A i \in DOMAIN g.gen :
       /\ ~act.prod_p.changed[i] => h.gen[i].p_mw = g.gen[i].p_mw
       /\ ~act.prod_v.changed[i] => h.gen[i].vm_pu = g.gen[i].vm_pu
  /\ \A i \in DOMAIN g.load :
       /\ ~act.load_p.changed[i] => h.load[i].p_mw = g.load[i].p_mw
       /\ ~act.load_q.changed[i] => h.load[i].q_mvar = g.load[i].q_mvar
  /\ \A i \in DOMAIN g.shunt :
       /\ ~act.shunt_p.changed[i] => h.shunt[i].p_mw = g.shunt[i].p_mw
       /\ ~act.shunt_q.changed[i] => h.shunt[i].q_mvar = g.shunt[i].q_mvar
       /\ ~act.shunt_bus.changed[i] =>
            /\ h.shunt[i].bus = g.shunt[i].bus
            /\ h.shunt[i].in_service = g.shunt[i].in_service
  /\ \A slot \in Rng(t.dim_topo) \ Listed(act.topo) :
       /\ SlotBus(h, t, slot) = SlotBus(g, t, slot)
       /\ BranchSlots(t, slot) \cap Listed(act.topo) = {}
            => SlotService(h, t, slot) = SlotService(g, t, slot)

\* C11: in every state of a loaded backend, whichever drawn action
\* apply_action is called with, every row of generator p and v setpoint,
\* load p and q, shunt p, q and bus whose changed flag is false keeps its
\* value, and every element whose slot is not in the list of pairs keeps
\* its bus and (unless it is a branch whose other end is listed) its
\* in-service flag; and a call apply_action(None) leaves the tables and
\* everything published as they were
C11_UnflaggedKept ==
  /\ [](phase = "loaded" =>
          \A act \in ActActions :
            KeptBy(grid, ApplyActionEffect(grid, tabs, act).grid, tabs, act))
  /\ [][(last'.op = "apply_action_none" /\ ncalls' = ncalls + 1)
          => UNCHANGED <<grid, tabs, snap, pub, ctl>>]_vars

\* an action that flagged one shunt row and one generator row has been
\* applied: the flagged rows changed, the other shunt row and the loads
\* did not
C11_Witness ==
  /\ phase = "loaded"
  /\ last.op = "apply_action"
  /\ last.ret = "None"
  /\ tabs.n_shunt = 2
  /\ grid.shunt[0].p_mw = 7
  /\ grid.shunt[1] = snap.shunt[1]
  /\ grid.gen[0].p_mw = 3
  /\ grid.load[0].p_mw = 5
  /\ Listed(last.arg.topo) = {0, tabs.dim_topo - 1}
  /\ \E slot \in Rng(tabs.dim_topo) \ Listed(last.arg.topo) :
       SlotBus(grid, tabs, slot) = SlotBus(snap, tabs, slot)

\* C15: when a call of apply_action with a present action returns, for
\* every substation i the in-service flag of bus i is the first column and
\* that of bus i + nb_bus_before the second column of the action's matrix
C15_BusFlagsFollowMatrix ==
  [][(last'.op = "apply_action" /\ ncalls' = ncalls + 1 /\ last'.ret = "None")
       => \A i \in Rng(tabs.n_sub) :
            /\ grid'.bus[i].in_service = last'.arg.active_bus[i][1]
            /\ grid'.bus[i + tabs.nb_bus_before].in_service
                 = last'.arg.active_bus[i][2]]_vars

\* an action with pairs and a matrix switching off original bus 1 and split
\* bus 0 has returned
C15_Witness ==
  /\ phase = "loaded"
  /\ last.op = "apply_action"
  /\ last.ret = "None"
  /\ Len(last.arg.topo) = 2
  /\ tabs.n_sub = 2
  /\ last.arg.active_bus = FromSeq(<<<<TRUE, FALSE>>, <<FALSE, TRUE>>>>)
  /\ grid.bus[0].in_service /\ ~grid.bus[1].in_service
  /\ ~grid.bus[2].in_service /\ grid.bus[3].in_service
  /\ \E slot \in Listed(last.arg.topo) :
       SlotBus(grid, tabs, slot) # SlotBus(snap, tabs, slot)

\* C16: in every state of a loaded backend, whichever drawn action
\* apply_action is called with, every shunt whose bus entry is flagged
\* changed ends in service exactly when its selector is not -1, on its home
\* bus when the selector is 1, on its home bus + nb_bus_before when the
\* selector is 2, and on the bus it was on when the selector is -1
C16_ShuntSelectorApplied ==
  phase = "loaded" =>
    \A act \in ActActions :
      LET h == ApplyActionEffect(grid, tabs, act).grid
      IN  \A i \in DOMAIN grid.shunt :
            act.shunt_bus.changed[i] =>
              LET sel == act.shunt_bus.values[i]
              IN  /\ h.shunt[i].in_service = (sel # -1)
                  /\ sel = 1 => h.shunt[i].bus = tabs.shunt_to_subid[i]
                  /\ sel = 2 => h.shunt[i].bus
                                  = tabs.shunt_to_subid[i] + tabs.nb_bus_before
                  /\ sel = -1 => h.shunt[i].bus = grid.shunt[i].bus

\* the selector that describes an element: -1 when out of service, 1 on
\* an original bus, 2 on a split bus
SelectorOf(in_service, bus, t) ==
  IF ~in_service THEN -1 ELSE IF bus < t.nb_bus_before THEN 1 ELSE 2

\* C17: the bus selectors a call of shunt_info returns are, for every
\* shunt, 1 when it is in service on its original bus, 2 when it is in
\* service on the split bus and -1 when it is out of service
C17_ShuntInfoSelectors ==
  (phase = "loaded" /\ last.op = "shunt_info") =>
    \A i \in DOMAIN grid.shunt :
      /\ last.ret.shunt_bus[i] \in {1, 2, -1}
      /\ last.ret.shunt_bus[i]
           = SelectorOf(grid.shunt[i].in_service, grid.shunt[i].bus, tabs)

\* C18: the vector a call of _get_topo_vect returns holds at the slot of
\* every element (both ends of lines and transformers, generators, loads)
\* -1 when the element is out of service, 1 when it is on its original bus
\* and 2 when it is on the split bus; and every entry of the published
\* topology vector is 1, 2 or -1
C18_DecodedSelectors ==
  phase = "loaded" =>
    /\ \A slot \in Rng(tabs.dim_topo) : pub.topo_vect[slot] \in {1, 2, -1}
    /\ last.op = "get_topo_vect" =>
         \A slot \in Rng(tabs.dim_topo) :
           \E s \in SlotService(grid, tabs, slot) :
             \E b \in SlotBus(grid, tabs, slot) :
               last.ret[slot] = SelectorOf(s, b, tabs)

----------------------------------------------------------------------------
(* Properties of the solver initialisation (Spec) *)

\* the call before this one was a successful alternating-current runpf, or
\* one was followed by a single apply_action that left the number of
\* in-service buses as it was
SolvedWithSameBuses ==
  \/ last.op = "runpf" /\ last.ret = "True" /\ last.arg = FALSE
  \/ /\ last.op = "apply_action"
     /\ last.ret = "None"
     /\ last.arg.nb_bus_kept
     /\ last.prev.op = "runpf" /\ last.prev.ret = "True" /\ last.prev.arg = FALSE

\* the call before this one was an apply_action that changed the number of
\* in-service buses, and the one before it a successful alternating-current
\* runpf
SolvedWithOtherBuses ==
  /\ last.op = "apply_action"
  /\ last.ret = "None"
  /\ ~last.arg.nb_bus_kept
  /\ last.prev.op = "runpf" /\ last.prev.ret = "True" /\ last.prev.arg = FALSE

\* C12: a call of runpf(is_dc = False) that runs the solver while the number
\* of in-service buses equals the number at the previous successful runpf
\* (no failure, reset or direct-current solve in between) chooses the
\* initialisation mode "results"
C12_WarmStart ==
  [][(RunPfStep /\ last'.arg = FALSE /\ last'.solved /\ SolvedWithSameBuses)
       => ctl'.pf_init = "results"]_vars

\* C14: a call of runpf that follows a successful alternating-current runpf
\* (no failure, reset or direct-current solve in between) does not choose
\* "dc", and chooses "auto" when the number of in-service buses differs
\* from the number at that runpf
C14_DcOnlyAfterClearing ==
  [][RunPfStep =>
       /\ (SolvedWithSameBuses \/ SolvedWithOtherBuses) => ctl'.pf_init # "dc"
       /\ SolvedWithOtherBuses => ctl'.pf_init = "auto"]_vars

----------------------------------------------------------------------------
(* Property of the slack synthesis (SpecLoad) *)

\* the generator and external-grid tables of the file a loaded grid came
\* from: the generator table without the row load_grid appended
FileTables(g, t) ==
  [ext_grid |-> g.ext_grid,
   gen |-> [i \in Rng(IF t.id_bus_added = None THEN Size(g.gen) ELSE t.id_bus_added)
              |-> g.gen[i]]]

\* C13: load_grid fails whenever no generator of the file is flagged slack
\* and more than one row of the solver's generator table sits on a bus
\* hosting no generator of the file, so a grid that was loaded with a
\* synthesized slack generator had at most one such row
C13_AmbiguousSlackRejected ==
  (phase = "loaded" /\ tabs.iref_slack # None)
    => Cardinality(RefCandidates(FileTables(grid, tabs))) <= 1

----------------------------------------------------------------------------
(* Properties of the bus table and of the line status (Spec) *)

\* C19: in every state of a loaded backend the bus table has twice as many
\* rows as the file has buses and row i + nb_bus_before has the nominal
\* voltage of row i; right after load_grid and right after every reset all
\* the rows past the first nb_bus_before are out of service
C19_BusTableDoubled ==
  phase = "loaded" =>
    /\ DOMAIN grid.bus = Rng(2 * tabs.nb_bus_before)
    /\ tabs.nb_bus_before = tabs.n_sub
    /\ \A i \in Rng(tabs.nb_bus_before) :
         /\ grid.bus[i + tabs.nb_bus_before].vn_kv = grid.bus[i].vn_kv
         /\ last.op \in {"load_grid", "reset"}
              => ~grid.bus[i + tabs.nb_bus_before].in_service

\* a reset has followed an action that had switched the split buses on
C19_Witness ==
  /\ phase = "loaded"
  /\ last.op = "reset"
  /\ last.prev.op = "apply_action"
  /\ last.prev.ret = "None"
  /\ ~last.prev.arg.bus_kept
  /\ \A i \in Rng(tabs.n_sub) : last.prev.arg.active_bus[i] = <<TRUE, TRUE>>
  /\ tabs.n_sub = 2
  /\ grid.bus[2].vn_kv # grid.bus[3].vn_kv
  /\ \A i \in Rng(tabs.n_sub) : ~grid.bus[i + tabs.nb_bus_before].in_service

\* C20: in every state of a loaded backend the line-status entry of every
\* branch is false exactly when both of its topology-vector slots are -1,
\* and equals the in-service flag of the branch right after a successful
\* runpf, a _disconnect_line or a _reconnect_line
C20_StatusAgreesWithTopology ==
  phase = "loaded" =>
    \A j \in Rng(tabs.n_line) :
      /\ ~pub.line_status[j]
           <=> /\ pub.topo_vect[tabs.line_or_pos_topo_vect[j]] = -1
               /\ pub.topo_vect[tabs.line_ex_pos_topo_vect[j]] = -1
      /\ \/ last.op = "runpf" /\ last.ret = "True"
         \/ last.op \in {"disconnect_line", "reconnect_line"}
         => pub.line_status[j] = BranchInService(grid, tabs, j)

----------------------------------------------------------------------------
(* Property of the branch mutators (SpecTrip) *)

\* the position in a list of the last pair that names one of the slots and
\* carries one of the selectors, 0 when there is none
LastPair(topo, slots, selectors) ==
  LET ks == { k \in DOMAIN topo : topo[k][1] \in slots /\ topo[k][2] \in selectors }
  IN  IF ks = {} THEN 0 ELSE CHOOSE k \in ks : \A m \in ks : m <= k

\* the home bus of the branch end that owns a slot
HomeOfEnd(t, j, slot) ==
  IF slot = t.line_or_pos_topo_vect[j] THEN t.init_bus_lor[j] ELSE t.init_bus_lex[j]

\* C21: when a call of apply_action returns, every branch one of whose ends
\* is named in the list is in service exactly when the last pair naming one
\* of its ends carries selector 1 or 2 (also when the branch was out of
\* service before); an end named with selector 1 or 2 is on its home bus
\* or on its home bus + nb_bus_before according to the last such pair, and
\* an end never named with 1 or 2 is on the bus it was on before the call
C21_LastPairDecides ==
  [][(last'.op = "apply_action" /\ ncalls' = ncalls + 1 /\ last'.ret = "None")
       => \A j \in Rng(tabs.n_line) :
            LET topo == last'.arg.topo
                ends == {tabs.line_or_pos_topo_vect[j], tabs.line_ex_pos_topo_vect[j]}
                k    == LastPair(topo, ends, {1, 2, -1})
            IN  k > 0 =>
                  /\ BranchInService(grid', tabs, j) = (topo[k][2] # -1)
                  /\ \A e \in ends :
                       LET ke == LastPair(topo, {e}, {1, 2})
                       IN  IF ke > 0
                           THEN SlotBus(grid', tabs, e)
                                  = {HomeOfEnd(tabs, j, e)
                                       + (topo[ke][2] - 1) * tabs.nb_bus_before}
                           ELSE SlotBus(grid', tabs, e) = SlotBus(grid, tabs, e)]_vars

\* branch 0 was disconnected by a list that ended with -1 on its extremity;
\* the next list names its origin with -1 and then its extremity with 2:
\* the branch is in service, its extremity on the split bus, its origin on
\* the bus it had
C21_Witness ==
  /\ phase = "loaded"
  /\ last.op = "apply_action" /\ last.ret = "None"
  /\ last.prev.op = "apply_action" /\ last.prev.ret = "None"
  /\ tabs.line_or_pos_topo_vect[0] < tabs.line_ex_pos_topo_vect[0]
  /\ last.prev.arg.topo[tabs.line_or_pos_topo_vect[0] + 1][2] = 1
  /\ last.prev.arg.topo[tabs.line_ex_pos_topo_vect[0] + 1][2] = -1
  /\ last.arg.topo[tabs.line_or_pos_topo_vect[0] + 1][2] = -1
  /\ last.arg.topo[tabs.line_ex_pos_topo_vect[0] + 1][2] = 2
  /\ BranchInService(grid, tabs, 0)
  /\ SlotBus(grid, tabs, tabs.line_ex_pos_topo_vect[0])
       = {tabs.init_bus_lex[0] + tabs.nb_bus_before}
  /\ SlotBus(grid, tabs, tabs.line_or_pos_topo_vect[0])
       = SlotBus(snap, tabs, tabs.line_or_pos_topo_vect[0])

----------------------------------------------------------------------------
(* Property of sub_from_bus_id (SpecSub) *)

\* C22: a call of sub_from_bus_id returns bus_id for a bus of the first
\* nb_bus_before rows and bus_id - nb_bus_before for a later row, and in
\* every state of a loaded backend the buses the resolver yields for
\* selectors 1 and 2 on home bus b are both mapped to b
C22_SubstationOfBus ==
  phase = "loaded" =>
    /\ last.op = "sub_from_bus_id" =>
         last.ret = IF last.arg < tabs.nb_bus_before THEN last.arg
                    ELSE last.arg - tabs.nb_bus_before
    /\ \A b \in Rng(tabs.n_sub) : \A sel \in {1, 2} :
         SubFromBusId(PpBusFromGrid2opBus(sel, b, tabs).res, tabs) = b

----------------------------------------------------------------------------
(* Property of the direct-current load voltages (SpecCycle) *)

\* the generators at the substation of load l_id whose published selector,
\* read at their own slot, equals the published selector of the load
GensWithLoad(p, t, l_id) ==
  { g \in Rng(t.n_gen) :
      /\ t.gen_to_subid[g] = t.load_to_subid[l_id]
      /\ p.topo_vect[t.gen_pos_topo_vect[g]] = p.topo_vect[t.load_pos_topo_vect[l_id]] }

\* C23: a call of runpf(is_dc = True) is not left by an indexing error, and
\* when it returns True the published voltage of every load is the
\* published voltage of a generator at its substation with the same
\* published selector when there is one, and the load's nominal voltage
\* otherwise
C23_DcLoadVoltage ==
  [][(RunPfStep /\ last'.arg = TRUE)
       => /\ last'.ret # "raised"
          /\ last'.ret = "True" =>
               \A l \in Rng(tabs.n_load) :
                 IF GensWithLoad(pub', tabs, l) # {}
                 THEN \E g \in GensWithLoad(pub', tabs, l) :
                        pub'.load_v[l] = pub'.prod_v[g]
                 ELSE pub'.load_v[l] = tabs.load_pu_to_kv[l]]_vars

====
